---- MODULE Spec2Model ----
(***************************************************************************)
(* Model of columns_model.py: the Faller, the Field and the GameState of   *)
(* the Columns game.  Operators model the methods of Faller and Field,     *)
(* actions model the public operations of GameState (Spec, SpecSeed) and   *)
(* of Field (SpecField).  Definitions marked "faulty variant" are wrong    *)
(* versions of the definition that follows them; no specification uses     *)
(* them.                                                                   *)
(***************************************************************************)
EXTENDS Integers, Sequences, FiniteSets, TLC

\* ---------------------------------------------------------------- constants
COLORS == <<"S", "T", "V", "W", "X", "Y", "Z">>
BLANK == " "

LEFT == -1
RIGHT == 1

FALLER_LENGTH == 3
BUFFER_SIZE == FALLER_LENGTH - 1
MATCHING_LENGTH == 3

\* ------------------------------------------------------------------- bounds
\* visible rows and columns handed to initialize_field in Spec
GameRows == 3
GameCols == 3
\* visible rows and columns handed to initialize_field in SpecSeed
SeedRows == 2
SeedCols == 4
\* visible rows and columns of the Field in SpecField
FieldRows == 3
FieldCols == 3
\* number of colours of COLORS in use
NumColors == 2
\* jewels in the contents handed to initialize_contents (Spec / SpecSeed)
MaxSeed == 3
MaxSeedCascade == 6
\* fallers spawned in one game, rotations of one faller
MaxFallers == 1
MaxRotations == 3
\* jewels put into the Field by set_color in SpecField
MaxJewels == 4

VARIABLES
    rows,        \* Field._rows (buffer rows included)
    cols,        \* Field._cols
    cells,       \* Field._cells: cells[row][col], row 0 is the top buffer row
    matching,    \* Field._matching: list of <<row, col>>
    faller,      \* GameState._faller (None or a Faller record)
    game_over,   \* GameState._game_over
    lastOp,      \* history: the operation executed last, its arguments, its effect
    spawnColors, \* history: colours the latest faller was created with
    rotations,   \* history: successful rotate_faller calls on the latest faller
    fallers,     \* history: number of fallers created so far
    updates      \* history: update() calls the latest faller has been through

vars == <<rows, cols, cells, matching, faller, game_over, lastOp,
          spawnColors, rotations, fallers, updates>>

Palette == {COLORS[i] : i \in 1..NumColors}
ColorTriples == [1..FALLER_LENGTH -> Palette]

Range(s) == {s[i] : i \in DOMAIN s}

SetMax(S) == CHOOSE x \in S : \A y \in S : y <= x

\* ------------------------------------------------------------------- Faller
\* the value of GameState._faller when there is no faller
None == [col |-> 0, rows |-> <<>>, colors |-> <<>>]

\* faulty variant: a faller created one row too low
FallerOneRowLower(col, colors, length) ==
    [col |-> col, rows |-> [i \in 1..length |-> i], colors |-> colors]

Faller(col, colors, length) ==
    [col |-> col, rows |-> [i \in 1..length |-> i - 1], colors |-> colors]

FallerBottom(f) == SetMax(Range(f.rows))

\* list.index: the first position holding the value
IndexOf(s, x) == CHOOSE i \in DOMAIN s : s[i] = x /\ \A j \in 1..(i - 1) : s[j] # x

FallerGetColor(f, row) == f.colors[IndexOf(f.rows, row)]

FallerMove(f, direction) == [f EXCEPT !.col = f.col + direction]

\* faulty variant: a drop that leaves the faller where it is
FallerDropStuck(f) == f

FallerDrop(f) == [f EXCEPT !.rows = [i \in DOMAIN f.rows |-> f.rows[i] + 1]]

\* faulty variant: a rotation moving the top colour to the bottom
FallerRotateUpwards(f) ==
    [f EXCEPT !.colors = Tail(f.colors) \o <<Head(f.colors)>>]

FallerRotate(f) ==
    [f EXCEPT !.colors = <<f.colors[Len(f.colors)]>>
                          \o SubSeq(f.colors, 1, Len(f.colors) - 1)]

\* -------------------------------------------------------------------- Field
buffer_size == BUFFER_SIZE

NewCells(nrows, ncols) == [row \in 0..(nrows - 1) |-> [col \in 0..(ncols - 1) |-> BLANK]]

SetColorAt(c, row, col, val) == [c EXCEPT ![row][col] = val]

\* faulty variant: the first matched cell is not emptied
ClearCellsAllButFirst(c, m) ==
    [row \in DOMAIN c |-> [col \in DOMAIN c[row] |->
        IF m # <<>> /\ <<row, col>> \in Range(Tail(m)) THEN BLANK ELSE c[row][col]]]

\* faulty variant: the matched cells keep their jewels
ClearCellsNothing(c, m) == c

ClearCells(c, m) ==
    [row \in DOMAIN c |-> [col \in DOMAIN c[row] |->
        IF <<row, col>> \in Range(m) THEN BLANK ELSE c[row][col]]]

\* faulty variant: the jewels gather at the top
GetDroppedColumnUpwards(c, col) ==
    LET column == [i \in 1..rows |-> c[i - 1][col]]
        dropped_col == SelectSeq(column, LAMBDA x : x # BLANK)
    IN  dropped_col \o [i \in 1..(rows - Len(dropped_col)) |-> BLANK]

GetDroppedColumn(c, col) ==
    LET column == [i \in 1..rows |-> c[i - 1][col]]
        dropped_col == SelectSeq(column, LAMBDA x : x # BLANK)
    IN  [i \in 1..(rows - Len(dropped_col)) |-> BLANK] \o dropped_col

\* faulty variant: the jewels stay where they are
DropFieldSkipped(c) == c

DropField(c) ==
    LET dropped_column == [col \in 0..(cols - 1) |-> GetDroppedColumn(c, col)]
    IN  [row \in 0..(rows - 1) |-> [col \in 0..(cols - 1) |-> dropped_column[col][row + 1]]]

\* faulty variant: the scan also runs through the buffer rows
RECURSIVE ScanRunFromTop(_, _, _, _, _, _)
ScanRunFromTop(c, base_color, row, col, drow, dcol) ==
    IF row >= 0 /\ col >= 0 /\ row < rows /\ col < cols
    THEN IF c[row][col] = base_color
         THEN <<<<row, col>>>> \o ScanRunFromTop(c, base_color, row + drow, col + dcol, drow, dcol)
         ELSE <<>>
    ELSE <<>>

RECURSIVE ScanRun(_, _, _, _, _, _)
ScanRun(c, base_color, row, col, drow, dcol) ==
    IF row >= BUFFER_SIZE /\ col >= 0 /\ row < rows /\ col < cols
    THEN IF c[row][col] = base_color
         THEN <<<<row, col>>>> \o ScanRun(c, base_color, row + drow, col + dcol, drow, dcol)
         ELSE <<>>
    ELSE <<>>

\* faulty variant: a cell already listed is listed again
AppendAll(m, run) == m \o run

RECURSIVE AppendNew(_, _)
AppendNew(m, run) ==
    IF run = <<>> THEN m
    ELSE AppendNew(IF Head(run) \in Range(m) THEN m ELSE Append(m, Head(run)), Tail(run))

\* faulty variant: a run of exactly MATCHING_LENGTH is not added
AddMatchingLongerOnly(c, m, row, col, drow, dcol) ==
    LET run == ScanRun(c, c[row][col], row, col, drow, dcol)
    IN  IF Len(run) > MATCHING_LENGTH THEN AppendNew(m, run) ELSE m

AddMatching(c, m, row, col, drow, dcol) ==
    LET run == ScanRun(c, c[row][col], row, col, drow, dcol)
    IN  IF Len(run) >= MATCHING_LENGTH THEN AppendNew(m, run) ELSE m

RECURSIVE LocateFrom(_, _, _)
LocateFrom(c, m, k) ==
    IF k >= rows * cols THEN m
    ELSE LET row == k \div cols
             col == k % cols
             m1 == AddMatching(c, m, row, col, 0, 1)
             m2 == AddMatching(c, m1, row, col, 1, 0)
             m3 == AddMatching(c, m2, row, col, 1, 1)
             m4 == AddMatching(c, m3, row, col, 1, -1)
         IN  LocateFrom(c, IF c[row][col] # BLANK THEN m4 ELSE m, k + 1)

LocateMatching(c, m) == LocateFrom(c, m, 0)

\* faulty variant: a column is full only when its buffer rows are occupied too
ColumnFullWithBuffer(c, col) == \A row \in 0..(rows - 1) : c[row][col] # BLANK

ColumnFull(c, col) == \A row \in buffer_size..(rows - 1) : c[row][col] # BLANK

EmptyBuffer(c) == \A row \in 0..(buffer_size - 1) : \A col \in 0..(cols - 1) : c[row][col] = BLANK

\* faulty variant: pending matches are not noticed
NoMatchingAlways(m) == TRUE

NoMatching(m) == Len(m) = 0

\* faulty variant: a column beside the grid counts as empty
EmptyRowsNoBounds(c, col, rws) ==
    col < 0 \/ col > cols - 1 \/ \A i \in DOMAIN rws : c[rws[i]][col] = BLANK

\* faulty variant: only the faller's top row is looked at
EmptyRowsTopOnly(c, col, rws) ==
    ~(col < 0) /\ ~(col > cols - 1) /\ c[rws[1]][col] = BLANK

EmptyRows(c, col, rws) ==
    ~(col < 0) /\ ~(col > cols - 1) /\ \A i \in DOMAIN rws : c[rws[i]][col] = BLANK

\* faulty variant: only the floor stops a faller
IsLandedFloorOnly(c, row, col) == row = rows - 1

IsLanded(c, row, col) == row = rows - 1 \/ c[row + 1][col] # BLANK

FreezeFaller(c, f) ==
    [row \in DOMAIN c |-> [col \in DOMAIN c[row] |->
        IF col = f.col /\ row \in Range(f.rows) THEN FallerGetColor(f, row) ELSE c[row][col]]]

\* grid positions the operations address: what is_landed and empty_rows read,
\* what freeze_faller writes, what _add_matching and locate_matching read
IsLandedReads(row, col) == IF row = rows - 1 THEN {} ELSE {<<row + 1, col>>}

EmptyRowsReads(col, rws) ==
    IF ~(col < 0) /\ ~(col > cols - 1) THEN {<<rws[i], col>> : i \in DOMAIN rws} ELSE {}

FreezeFallerWrites(f) == {<<f.rows[i], f.col>> : i \in DOMAIN f.rows}

AddMatchingReads(c, row, col, drow, dcol) ==
    LET n == Len(ScanRun(c, c[row][col], row, col, drow, dcol))
        visited == {k \in 0..n : /\ row + k * drow >= BUFFER_SIZE /\ col + k * dcol >= 0
                                 /\ row + k * drow < rows /\ col + k * dcol < cols}
    IN  {<<row, col>>} \cup {<<row + k * drow, col + k * dcol>> : k \in visited}

LocateMatchingReads(c) ==
    UNION {IF c[row][col] # BLANK
           THEN AddMatchingReads(c, row, col, 0, 1) \cup AddMatchingReads(c, row, col, 1, 0)
                \cup AddMatchingReads(c, row, col, 1, 1) \cup AddMatchingReads(c, row, col, 1, -1)
           ELSE {<<row, col>>} : row \in 0..(rows - 1), col \in 0..(cols - 1)}

\* ---------------------------------------------------------------- GameState
CheckFallerLanded(c, f) == IsLanded(c, FallerBottom(f), f.col)

\* faulty variant: the field is dropped before the matched cells are cleared
UpdateMatchingDropFirst(c, m) ==
    LET dropped == DropField(c)
        cleared == ClearCells(dropped, m)
    IN  [cells |-> cleared, matching |-> LocateMatching(cleared, <<>>)]

\* faulty variant: the search adds to the list of the previous search
UpdateMatchingKeepingList(c, m) ==
    LET cleared == ClearCells(c, m)
        dropped == DropField(cleared)
    IN  [cells |-> dropped, matching |-> LocateMatching(dropped, m)]

\* clear_matching, drop_field, locate_matching, in that order
UpdateMatching(c, m) ==
    LET cleared == ClearCells(c, m)
        dropped == DropField(cleared)
    IN  [cells |-> dropped, matching |-> LocateMatching(dropped, <<>>)]

\* history record of a call: its name, its integer argument (for update: the
\* number of matched cells it cleared), the colours of the faller it created,
\* what it did, and game_over when it was called
Op(name, arg, colors, effect) ==
    [op |-> name, arg |-> arg, colors |-> colors, effect |-> effect, was_over |-> game_over]

\* faulty variant: the flag follows the condition, so it can fall back
LossCheckResetting(over, c, m) == NoMatching(m) /\ ~EmptyBuffer(c)

\* faulty variant: a pending match does not spare the game
LossCheckIgnoringMatches(over, c, m) == IF ~EmptyBuffer(c) THEN TRUE ELSE over

\* the loss check that ends update: _lose_game only ever sets the flag
LossCheck(over, c, m) == IF NoMatching(m) /\ ~EmptyBuffer(c) THEN TRUE ELSE over

\* GameState() followed by initialize_field(nrows, ncols)
InitializeField(nrows, ncols) ==
    /\ rows = nrows + BUFFER_SIZE
    /\ cols = ncols
    /\ cells = NewCells(nrows + BUFFER_SIZE, ncols)
    /\ matching = <<>>
    /\ faller = None
    /\ game_over = FALSE
    /\ lastOp = Op("initialize_field", 0, <<>>, "none")
    /\ spawnColors = <<>>
    /\ rotations = 0
    /\ fallers = 0
    /\ updates = 0

\* the contents initialize_contents is called with: one list per visible row,
\* holding the colours f at the positions S and BLANK elsewhere
SeedPositions(maxJewels) ==
    {S \in SUBSET ((0..(rows - BUFFER_SIZE - 1)) \X (0..(cols - 1))) : Cardinality(S) <= maxJewels}

Contents(S, f) ==
    [row \in 0..(rows - BUFFER_SIZE - 1) |-> [col \in 0..(cols - 1) |->
        IF <<row, col>> \in S THEN f[<<row, col>>] ELSE BLANK]]

SeedCells(c, contents) ==
    [row \in DOMAIN c |-> [col \in DOMAIN c[row] |->
        IF row - BUFFER_SIZE \in DOMAIN contents
        THEN contents[row - BUFFER_SIZE][col] ELSE c[row][col]]]

\* initialize_contents, called for setup right after initialize_field
InitializeContents(contents) ==
    /\ lastOp.op = "initialize_field"
    /\ \E um \in {UpdateMatching(SeedCells(cells, contents), matching)} :
          /\ cells' = um.cells
          /\ matching' = um.matching
    /\ lastOp' = Op("initialize_contents", 0, <<>>, "none")
    /\ UNCHANGED <<rows, cols, faller, game_over, spawnColors, rotations, fallers, updates>>

Update ==
    LET landed == faller # None /\ CheckFallerLanded(cells, faller)
        frozen == IF landed THEN FreezeFaller(cells, faller) ELSE cells
    IN  \E um \in {UpdateMatching(frozen, matching)} :
        /\ faller' = IF faller = None \/ landed THEN None ELSE FallerDrop(faller)
        /\ cells' = um.cells
        /\ matching' = um.matching
        /\ game_over' = LossCheck(game_over, um.cells, um.matching)
        /\ lastOp' = Op("update", Len(matching), <<>>,
                        IF faller = None THEN "none" ELSE IF landed THEN "frozen" ELSE "dropped")
        /\ updates' = IF faller = None THEN updates ELSE updates + 1
        /\ UNCHANGED <<rows, cols, spawnColors, rotations, fallers>>

InitializeFaller(col, colors) ==
    /\ (faller = None /\ NoMatching(matching) /\ ~ColumnFull(cells, col)) => fallers < MaxFallers
    /\ IF faller = None /\ NoMatching(matching)
       THEN IF ColumnFull(cells, col)
            THEN /\ game_over' = TRUE
                 /\ lastOp' = Op("initialize_faller", col, <<>>, "lost")
                 /\ UNCHANGED <<faller, spawnColors, rotations, fallers, updates>>
            ELSE /\ faller' = Faller(col, colors, FALLER_LENGTH)
                 /\ spawnColors' = colors
                 /\ rotations' = 0
                 /\ fallers' = fallers + 1
                 /\ updates' = 0
                 /\ lastOp' = Op("initialize_faller", col, colors, "created")
                 /\ UNCHANGED game_over
       ELSE /\ lastOp' = Op("initialize_faller", col, <<>>, "none")
            /\ UNCHANGED <<faller, game_over, spawnColors, rotations, fallers, updates>>
    /\ UNCHANGED <<rows, cols, cells, matching>>

RotateFaller ==
    /\ rotations < MaxRotations
    /\ IF faller # None /\ ~game_over
       THEN /\ faller' = FallerRotate(faller)
            /\ rotations' = rotations + 1
            /\ lastOp' = Op("rotate_faller", 0, <<>>, "rotated")
       ELSE /\ lastOp' = Op("rotate_faller", 0, <<>>, "none")
            /\ UNCHANGED <<faller, rotations>>
    /\ UNCHANGED <<rows, cols, cells, matching, game_over, spawnColors, fallers, updates>>

MoveFaller(direction) ==
    /\ IF faller # None /\ ~game_over /\ EmptyRows(cells, faller.col + direction, faller.rows)
       THEN /\ faller' = FallerMove(faller, direction)
            /\ lastOp' = Op("move_faller", direction, <<>>, "moved")
       ELSE /\ lastOp' = Op("move_faller", direction, <<>>, "none")
            /\ UNCHANGED faller
    /\ UNCHANGED <<rows, cols, cells, matching, game_over, spawnColors, rotations, fallers, updates>>


\* ------------------------------------------- the Field's operations alone
JewelCount(c) == Cardinality({p \in (DOMAIN c) \X (0..(cols - 1)) : c[p[1]][p[2]] # BLANK})

\* history record of a Field call: its argument is 1 when the call before it
\* was the same operation, else 0
FieldOp(name, changed) ==
    Op(name, IF lastOp.op = name THEN 1 ELSE 0, <<>>, IF changed THEN "changed" ELSE "same")

\* Field.set_color on a field under construction
SetColor(row, col, val) ==
    /\ lastOp.op \in {"initialize_field", "set_color"}
    /\ JewelCount(SetColorAt(cells, row, col, val)) <= MaxJewels
    /\ cells' = SetColorAt(cells, row, col, val)
    /\ lastOp' = FieldOp("set_color", cells' # cells)
    /\ UNCHANGED <<rows, cols, matching, faller, game_over, spawnColors, rotations, fallers, updates>>

ClearMatching ==
    /\ cells' = ClearCells(cells, matching)
    /\ matching' = <<>>
    /\ lastOp' = FieldOp("clear_matching", cells' # cells \/ matching' # matching)
    /\ UNCHANGED <<rows, cols, faller, game_over, spawnColors, rotations, fallers, updates>>

DropFieldCall ==
    /\ cells' = DropField(cells)
    /\ lastOp' = FieldOp("drop_field", cells' # cells)
    /\ UNCHANGED <<rows, cols, matching, faller, game_over, spawnColors, rotations, fallers, updates>>

LocateMatchingCall ==
    /\ matching' = LocateMatching(cells, matching)
    /\ lastOp' = FieldOp("locate_matching", matching' # matching)
    /\ UNCHANGED <<rows, cols, cells, faller, game_over, spawnColors, rotations, fallers, updates>>

\* ----------------------------------------------------------- specifications
\* the colours initialize_faller is called with; a call made while a faller
\* exists or a match is pending never reads them, so one triple stands for all
CallColors ==
    IF faller = None /\ NoMatching(matching)
    THEN ColorTriples
    ELSE {[i \in 1..FALLER_LENGTH |-> COLORS[1]]}

Init == InitializeField(GameRows, GameCols)

Next ==
    \/ /\ lastOp.op = "initialize_field"
       /\ \E S \in SeedPositions(MaxSeed) : \E f \in [S -> Palette] :
             InitializeContents(Contents(S, f))
    \/ Update
    \/ \E col \in 0..(cols - 1) : \E colors \in CallColors : InitializeFaller(col, colors)
    \/ RotateFaller
    \/ \E direction \in {LEFT, RIGHT} : MoveFaller(direction)

Spec == Init /\ [][Next]_vars

\* the Field filled cell by cell, then cleared, dropped and searched in any order
InitField == InitializeField(FieldRows, FieldCols)

NextField ==
    \/ \E row \in 0..(rows - 1) : \E col \in 0..(cols - 1) : \E val \in Palette :
          SetColor(row, col, val)
    \/ ClearMatching
    \/ DropFieldCall
    \/ LocateMatchingCall

SpecField == InitField /\ [][NextField]_vars

\* a seeded board left to resolve: initialize_contents, then update only
InitSeed == InitializeField(SeedRows, SeedCols)

NextSeed ==
    \/ /\ lastOp.op = "initialize_field"
       /\ \E S \in SeedPositions(MaxSeedCascade) : \E f \in [S -> Palette] :
             InitializeContents(Contents(S, f))
    \/ /\ lastOp.op # "initialize_field"
       /\ Update

SpecSeed == InitSeed /\ [][NextSeed]_vars

\* ------------------------------------------------- vocabulary of the claims
VisibleRows == BUFFER_SIZE..(rows - 1)
BufferRows == 0..(BUFFER_SIZE - 1)
AllCols == 0..(cols - 1)

Occupied(c, row, col) == c[row][col] # BLANK
BufferOccupied(c) == \E row \in BufferRows : \E col \in AllCols : Occupied(c, row, col)
VisibleColumnFull(c, col) == \A row \in VisibleRows : Occupied(c, row, col)
FallerExists(f) == f # None

\* top-to-bottom colours after k rotations, each moving the bottom colour to the top
Shifted(colors, k) == [i \in 1..Len(colors) |-> colors[((i - 1 - k) % Len(colors)) + 1]]

C2_GameOverMonotonic == [][game_over => game_over']_vars

\* an update executed on a game that was already over
C2_Witness ==
    /\ lastOp.op = "update"
    /\ lastOp.was_over
    /\ game_over
    /\ ~BufferOccupied(cells)

\* C3: initializeFaller on a column that is full in the visible region creates
\* no faller and makes gameOver true.
C3_FullColumnLoses ==
    [][(lastOp'.op = "initialize_faller" /\ VisibleColumnFull(cells, lastOp'.arg)) =>
        (faller' = faller /\ game_over' = TRUE)]_vars

\* C4: initializeFaller creates a faller iff no faller exists, no match is
\* pending and the column is not full; the new faller is in that column at rows
\* 0, 1, 2 with the given colours; an existing faller, the grid and matchedSet
\* are untouched.
C4_InitializeFaller ==
    [][lastOp'.op = "initialize_faller" =>
        LET col == lastOp'.arg
            ok == ~FallerExists(faller) /\ matching = <<>> /\ ~VisibleColumnFull(cells, col)
        IN  /\ (FallerExists(faller') /\ faller' # faller) <=> ok
            /\ ok => faller' = [col |-> col, rows |-> <<0, 1, 2>>, colors |-> lastOp'.colors]
            /\ ~ok => faller' = faller
            /\ cells' = cells
            /\ matching' = matching]_vars

\* a faller just created over a non-empty grid
C4_Witness ==
    /\ lastOp.op = "initialize_faller"
    /\ lastOp.effect = "created"
    /\ faller = [col |-> lastOp.arg, rows |-> <<0, 1, 2>>, colors |-> lastOp.colors]
    /\ faller.colors[1] # faller.colors[3]
    /\ \E col \in AllCols : Occupied(cells, rows - 1, col)

\* C5: initializeFaller called while a match is pending sets gameOver.
C5_PendingMatchLoses ==
    [][(lastOp'.op = "initialize_faller" /\ matching # <<>>) => game_over' = TRUE]_vars

\* C6: moveFaller(d) changes the faller's column by d iff a faller exists, the
\* game is not over, the destination is inside [0, cols) and empty at every row
\* of the faller; otherwise the position is unchanged.  Rows, colours, grid,
\* matchedSet and gameOver never change.
C6_MoveFaller ==
    [][lastOp'.op = "move_faller" =>
        LET d == lastOp'.arg
            ok == /\ FallerExists(faller)
                  /\ ~game_over
                  /\ faller.col + d \in AllCols
                  /\ \A i \in 1..Len(faller.rows) : ~Occupied(cells, faller.rows[i], faller.col + d)
        IN  /\ d \in {-1, 1}
            /\ faller'.col = IF ok THEN faller.col + d ELSE faller.col
            /\ faller'.rows = faller.rows
            /\ faller'.colors = faller.colors
            /\ cells' = cells
            /\ matching' = matching
            /\ game_over' = game_over]_vars

\* a lateral move refused because the destination holds a jewel at a faller row
C6_Witness ==
    /\ lastOp.op = "move_faller"
    /\ lastOp.effect = "none"
    /\ FallerExists(faller)
    /\ ~game_over
    /\ faller.col + lastOp.arg \in AllCols
    /\ Occupied(cells, faller.rows[3], faller.col + lastOp.arg)
    /\ ~Occupied(cells, faller.rows[1], faller.col + lastOp.arg)

\* C7: an update that freezes the faller writes its colours, top to bottom, into
\* the three cells at its rows in its column; these are the spawn colours
\* shifted by the number of successful rotations (3 rotations restore them); no
\* other column changes and the faller is gone.
C7_FreezeColours ==
    [][(lastOp'.op = "update" /\ FallerExists(faller) /\ ~FallerExists(faller')) =>
        /\ \A i \in 1..FALLER_LENGTH :
              cells'[faller.rows[i]][faller.col] = Shifted(spawnColors, rotations % 3)[i]
        /\ \A row \in 0..(rows - 1) : \A col \in AllCols \ {faller.col} :
              cells'[row][col] = cells[row][col]
        /\ faller' = None]_vars

\* a faller frozen after two rotations of three colours that are not all equal
C7_Witness ==
    /\ lastOp.op = "update"
    /\ lastOp.effect = "frozen"
    /\ rotations = 2
    /\ spawnColors[1] # spawnColors[2]
    /\ \E col \in AllCols :
          \A i \in 1..FALLER_LENGTH : cells[rows - 4 + i][col] = Shifted(spawnColors, 2)[i]

\* the colours of a column's jewels, top to bottom
ColumnJewels(c, col) == SelectSeq([i \in 1..rows |-> c[i - 1][col]], LAMBDA x : x # BLANK)

\* no jewel of the column has an empty cell below it
SettledColumn(c, col) ==
    \A row \in 0..(rows - 2) : Occupied(c, row, col) => Occupied(c, row + 1, col)

\* the 4 axes: horizontal, vertical, down-right diagonal, down-left diagonal
Axes == {<<0, 1>>, <<1, 0>>, <<1, 1>>, <<1, -1>>}

Line3(row, col, ax) == {<<row + i * ax[1], col + i * ax[2]>> : i \in 0..2}

\* the 3 cells from (row, col) along ax lie in the visible rows and hold one colour
VisibleLine3(c, row, col, ax) ==
    /\ Occupied(c, row, col)
    /\ \A p \in Line3(row, col, ax) :
          p[1] \in VisibleRows /\ p[2] \in AllCols /\ c[p[1]][p[2]] = c[row][col]

\* every cell of the visible rows that lies on a same-coloured line of 3 or more
RunCells(c) ==
    UNION {Line3(row, col, ax) : <<row, col, ax>> \in
              {t \in VisibleRows \X AllCols \X Axes : VisibleLine3(c, t[1], t[2], t[3])}}

RECURSIVE Reach(_, _, _, _, _, _)
Reach(c, color, row, col, drow, dcol) ==
    IF row \in 0..(rows - 1) /\ col \in AllCols /\ c[row][col] = color
    THEN 1 + Reach(c, color, row + drow, col + dcol, drow, dcol)
    ELSE 0

\* length of the same-coloured line through (row, col) along ax, in the whole grid
LineLength(c, row, col, ax) ==
    IF ~Occupied(c, row, col) THEN 0
    ELSE Reach(c, c[row][col], row, col, ax[1], ax[2])
         + Reach(c, c[row][col], row, col, -ax[1], -ax[2]) - 1

\* C8: dropAll leaves every column with its jewels contiguous at the bottom
\* (buffer rows included), in the same top-to-bottom colour order and number;
\* no jewel changes column.
C8_DropStable ==
    [][lastOp'.op = "drop_field" =>
        \A col \in AllCols :
            /\ ColumnJewels(cells', col) = ColumnJewels(cells, col)
            /\ SettledColumn(cells', col)]_vars

\* a drop that moved jewels of two colours in the only occupied column
C8_Witness ==
    /\ lastOp.op = "drop_field"
    /\ lastOp.effect = "changed"
    /\ \E col \in AllCols :
          /\ Len(ColumnJewels(cells, col)) >= 3
          /\ ColumnJewels(cells, col)[1] # ColumnJewels(cells, col)[2]
          /\ \A other \in AllCols \ {col} : ColumnJewels(cells, other) = <<>>

\* C9: locateMatching flags every cell of a same-coloured line of 3 adjacent
\* cells in the visible rows along any of the 4 axes (so every line of exactly
\* 3), and never flags a cell whose longest same-coloured line, over the 4 axes,
\* has length 2 or less.
C9_LocateMatching ==
    [][lastOp'.op = "locate_matching" =>
        /\ \A row \in VisibleRows : \A col \in AllCols : \A ax \in Axes :
              VisibleLine3(cells, row, col, ax) => Line3(row, col, ax) \subseteq Range(matching')
        /\ \A p \in Range(matching') \ Range(matching) :
              \E ax \in Axes : LineLength(cells, p[1], p[2], ax) >= 3]_vars

\* a search that flagged a diagonal line of 3 and left a pair of 2 unflagged
C9_Witness ==
    /\ lastOp.op = "locate_matching"
    /\ lastOp.effect = "changed"
    /\ \E row \in VisibleRows : \E col \in AllCols : \E ax \in {<<1, 1>>, <<1, -1>>} :
          VisibleLine3(cells, row, col, ax) /\ Line3(row, col, ax) = Range(matching)
    /\ \E row \in VisibleRows : \E col \in AllCols :
          /\ <<row, col>> \notin Range(matching)
          /\ \E ax \in Axes : LineLength(cells, row, col, ax) = 2
          /\ \A ax \in Axes : LineLength(cells, row, col, ax) <= 2

\* the grid's only same-coloured line of 3 or more is the horizontal one
\* starting at (row, col)
OnlyRun(c, row, col) ==
    /\ VisibleLine3(c, row, col, <<0, 1>>)
    /\ RunCells(c) = Line3(row, col, <<0, 1>>)

\* the update removed the jewel at (row, col): the column above moved down one
JewelRemoved(c, d, row, col) ==
    /\ \A r \in 1..row : d[r][col] = c[r - 1][col]
    /\ d[0][col] = BLANK
    /\ \A r \in (row + 1)..(rows - 1) : d[r][col] = c[r][col]

SeededRunLocated(row, col) ==
    /\ Range(matching) = Line3(row, col, <<0, 1>>)
    /\ Len(matching) = 3

\* C10 as claimed: seeded with exactly one horizontal run of 3, matching()
\* reports exactly those 3 cells, and after the next update() the 3 cells no
\* longer hold those jewels and matching() no longer lists them.
C10_SeededRunGone ==
    [][(lastOp.op = "initialize_contents" /\ lastOp'.op = "update") =>
        \A row \in VisibleRows : \A col \in AllCols :
            OnlyRun(cells, row, col) =>
                /\ SeededRunLocated(row, col)
                /\ \A p \in Line3(row, col, <<0, 1>>) :
                      JewelRemoved(cells, cells', p[1], p[2]) /\ p \notin Range(matching')]_vars

\* C10 as amended: seeded with exactly one horizontal run of 3, matching()
\* reports exactly those 3 cells, and the next update() removes those 3 jewels
\* (the jewels above them move down one row); afterwards matching() lists one of
\* the 3 cells only if it lies on a same-coloured line of 3 of the compacted grid.
C10_SeededRunCleared ==
    [][(lastOp.op = "initialize_contents" /\ lastOp'.op = "update") =>
        \A row \in VisibleRows : \A col \in AllCols :
            OnlyRun(cells, row, col) =>
                /\ SeededRunLocated(row, col)
                /\ \A p \in Line3(row, col, <<0, 1>>) :
                      /\ JewelRemoved(cells, cells', p[1], p[2])
                      /\ p \in Range(matching') => p \in RunCells(cells')]_vars

\* the first update after seeding cleared a run of 3 and the jewels that fell
\* into its cells form a new run
C10_Witness ==
    /\ lastOp.op = "update"
    /\ lastOp.arg = 3
    /\ JewelCount(cells) = MaxSeedCascade - 3
    /\ matching # <<>>
    /\ Range(matching) = RunCells(cells)

\* C11: locateMatching is idempotent: a second call in a row, the colours
\* unchanged in between, leaves matchedSet as the first call left it (no cell
\* added, removed or duplicated).
C11_LocateIdempotent ==
    [][(lastOp.op = "locate_matching" /\ lastOp'.op = "locate_matching") =>
        /\ cells' = cells
        /\ matching' = matching
        /\ Len(matching') = Cardinality(Range(matching'))]_vars

\* a second search in a row over a grid that holds a run
C11_Witness ==
    /\ lastOp.op = "locate_matching"
    /\ lastOp.arg = 1
    /\ Len(matching) >= MATCHING_LENGTH
    /\ Range(matching) = RunCells(cells)

\* positions inside the grid; a faller of three contiguous rows inside the grid
InGrid(S) == S \subseteq ((0..(rows - 1)) \X (0..(cols - 1)))

FallerInGrid(f) ==
    /\ f.col \in AllCols
    /\ Len(f.rows) = FALLER_LENGTH
    /\ \A i \in 1..(FALLER_LENGTH - 1) : f.rows[i + 1] = f.rows[i] + 1
    /\ f.rows[1] >= 0
    /\ f.rows[FALLER_LENGTH] <= rows - 1

\* C12: no cell outside [0,rows) x [0,cols) is ever addressed: the faller's
\* column is within [0,cols), its three rows are contiguous and within
\* [0,rows), and the landing check, the move check (either direction), the
\* freeze and the match search address in-bounds positions only.
C12_InBounds ==
    /\ InGrid(LocateMatchingReads(cells))
    /\ InGrid(Range(matching))
    /\ FallerExists(faller) =>
        /\ FallerInGrid(faller)
        /\ InGrid(IsLandedReads(faller.rows[FALLER_LENGTH], faller.col))
        /\ InGrid(FreezeFallerWrites(faller))
        /\ \A direction \in {LEFT, RIGHT} :
              InGrid(EmptyRowsReads(faller.col + direction, faller.rows))

\* a faller on the floor in the leftmost column whose move to the left was refused
C12_Witness ==
    /\ FallerExists(faller)
    /\ lastOp.op = "move_faller"
    /\ lastOp.arg = LEFT
    /\ lastOp.effect = "none"
    /\ faller.col = 0
    /\ faller.rows[FALLER_LENGTH] = rows - 1
    /\ ~game_over

\* the faller stands on the floor or on a jewel; the grid with the faller's
\* colours written at its position
RestsOnSomething(c, f) ==
    \/ f.rows[FALLER_LENGTH] = rows - 1
    \/ Occupied(c, f.rows[FALLER_LENGTH] + 1, f.col)

FrozenInPlace(c, f) ==
    [row \in 0..(rows - 1) |-> [col \in AllCols |->
        IF col = f.col /\ \E i \in 1..FALLER_LENGTH : f.rows[i] = row
        THEN f.colors[CHOOSE i \in 1..FALLER_LENGTH : f.rows[i] = row]
        ELSE c[row][col]]]

\* C13: in update(), a faller whose bottom cell is landed at the start of the
\* call (last grid row, or the cell below it occupied) is frozen where it is
\* and ceases to exist; a faller that is not landed moves down exactly one row,
\* keeps its column and colours, is not frozen and stays the faller.
C13_FreezeOrDrop ==
    [][(lastOp'.op = "update" /\ FallerExists(faller)) =>
        IF RestsOnSomething(cells, faller)
        THEN /\ ~FallerExists(faller')
             /\ cells' = FrozenInPlace(cells, faller)
        ELSE /\ faller' = [col |-> faller.col,
                           rows |-> [i \in 1..FALLER_LENGTH |-> faller.rows[i] + 1],
                           colors |-> faller.colors]
             /\ cells' = cells]_vars

\* an update has frozen a faller that rested on a jewel, not on the floor
C13_Witness ==
    /\ lastOp.op = "update"
    /\ lastOp.effect = "frozen"
    /\ ~FallerExists(faller)
    /\ \E col \in AllCols :
          /\ Len(ColumnJewels(cells, col)) > FALLER_LENGTH
          /\ \A i \in 1..FALLER_LENGTH : ColumnJewels(cells, col)[i] = spawnColors[i]

\* the grid with the landed faller frozen in and the cells listed in m emptied
FrozenAndCleared(c, f, m) ==
    LET frozen == IF FallerExists(f) /\ RestsOnSomething(c, f) THEN FrozenInPlace(c, f) ELSE c
    IN  [row \in 0..(rows - 1) |-> [col \in AllCols |->
            IF \E i \in 1..Len(m) : m[i] = <<row, col>> THEN BLANK ELSE frozen[row][col]]]

C15_MatchingIsCurrent ==
    /\ {matching[i] : i \in 1..Len(matching)} = RunCells(cells)
    /\ \A i, j \in 1..Len(matching) : matching[i] = matching[j] => i = j
    /\ \A i \in 1..Len(matching) : Occupied(cells, matching[i][1], matching[i][2])

\* an update has cleared a match, jewels have fallen into cleared cells, and
\* the new search found a run there (a cascade)
C15_Witness ==
    /\ lastOp.op = "update"
    /\ lastOp.arg >= MATCHING_LENGTH
    /\ Len(matching) >= MATCHING_LENGTH

\* the cell (row, col) is an end of a same-coloured line of 3 or more along ax
EndsLine(c, row, col, ax) ==
    /\ LineLength(c, row, col, ax) >= MATCHING_LENGTH
    /\ \/ Reach(c, c[row][col], row, col, ax[1], ax[2]) = 1
       \/ Reach(c, c[row][col], row, col, -ax[1], -ax[2]) = 1

\* C16 as stated: locateMatching adds to matchedSet a buffer-row cell that
\* ends a same-coloured run of length 3 or more.  The code does not do that.
C16_BufferCellEndsRun ==
    [][lastOp'.op = "locate_matching" =>
        \A row \in BufferRows : \A col \in AllCols : \A ax \in Axes :
            EndsLine(cells', row, col, ax) =>
                \E i \in 1..Len(matching') : matching'[i] = <<row, col>>]_vars

\* C16, amended: locateMatching never adds a buffer-row cell to matchedSet,
\* neither as the start nor as the end of a run; of a same-coloured line that
\* reaches into the buffer rows the visible cells alone are added, and only
\* when 3 or more of them are in line (every cell a call adds lies, with two
\* more cells of its colour, on a line inside the visible rows).
C16_BufferNeverFlagged ==
    [][lastOp'.op = "locate_matching" =>
        \A i \in 1..Len(matching') :
            /\ matching'[i][1] \in VisibleRows
            /\ (\A j \in 1..Len(matching) : matching[j] # matching'[i]) =>
                  \E ax \in Axes : \E p \in VisibleRows \X AllCols :
                      /\ VisibleLine3(cells', p[1], p[2], ax)
                      /\ matching'[i] \in Line3(p[1], p[2], ax)]_vars

\* a search over a grid where a buffer cell tops a vertical line of one colour
\* whose visible part was flagged
C16_Witness ==
    /\ lastOp.op = "locate_matching"
    /\ \E col \in AllCols :
          /\ EndsLine(cells, BUFFER_SIZE - 1, col, <<1, 0>>)
          /\ \E i \in 1..Len(matching) : matching[i] = <<BUFFER_SIZE, col>>
          /\ \A i \in 1..Len(matching) : matching[i] # <<BUFFER_SIZE - 1, col>>

\* C17 as stated: gameOver is terminal: once gameOver is true no operation of
\* the game changes the grid, matchedSet or the faller.  The code's update and
\* initialize_faller do not test _game_over, so the statement does not hold.
C17_GameOverTerminal ==
    [][game_over =>
        /\ cells' = cells
        /\ matching' = matching
        /\ faller' = faller]_vars

\* C18: the faller never overlaps a settled jewel: whenever a faller exists,
\* the grid cell at each of its three rows in its column is empty (right after
\* the spawn at rows 0..2, after each drop, after each lateral move).
C18_FallerOnEmptyCells ==
    FallerExists(faller) =>
        \A i \in 1..FALLER_LENGTH : ~Occupied(cells, faller.rows[i], faller.col)

\* a faller just spawned directly on top of the jewels of its column
C18_Witness ==
    /\ FallerExists(faller)
    /\ lastOp.op = "initialize_faller"
    /\ lastOp.effect = "created"
    /\ faller.rows[1] = 0
    /\ Occupied(cells, FALLER_LENGTH, faller.col)

\* C19: a faller and pending matches never coexist: whenever a faller exists
\* matchedSet is empty, and an update() made while a faller exists leaves the
\* grid's cells unchanged unless it is the update that freezes the faller.
C19_FallerWithoutMatches ==
    [][/\ FallerExists(faller') => Len(matching') = 0
       /\ (lastOp'.op = "update" /\ FallerExists(faller) /\ FallerExists(faller'))
             => cells' = cells]_vars

\* an update has dropped the faller over a grid that holds settled jewels
C19_Witness ==
    /\ FallerExists(faller)
    /\ lastOp.op = "update"
    /\ lastOp.effect = "dropped"
    /\ Len(matching) = 0
    /\ \E col \in AllCols : Occupied(cells, rows - 1, col)

\* C20: the settled grid is gravity-compacted between operations: after
\* initializeContents and after every update, initializeFaller, moveFaller
\* and rotateFaller no occupied cell (buffer rows included) is directly above
\* an empty cell of its column, matched cells and freshly frozen jewels
\* included.
C20_GridCompacted ==
    \A col \in AllCols : \A row \in 0..(rows - 2) :
        Occupied(cells, row, col) => Occupied(cells, row + 1, col)

\* the faller's top jewel, of another colour than the two below it, has fallen
\* to the floor after an update cleared the match under it
C20_Witness ==
    /\ lastOp.op = "update"
    /\ lastOp.arg = MATCHING_LENGTH
    /\ fallers = 1
    /\ rotations = 0
    /\ spawnColors[1] # spawnColors[2]
    /\ Cardinality({p \in (0..(rows - 1)) \X AllCols : Occupied(cells, p[1], p[2])}) = 1
    /\ \E col \in AllCols : cells[rows - 1][col] = spawnColors[1]

\* C21: every faller is eventually frozen: a faller that still exists has been
\* through fewer than visibleRows (= rows - bufferSize) update() calls since it
\* was spawned, so the visibleRows-th update at the latest has frozen it; it
\* ceases to exist only by an update that writes its three jewels into the
\* grid; and as long as it exists no operation raises it: a move or a rotation
\* keeps its rows, an update lowers them by one, its bottom row never decreases.
C21_FallerFrozenInTime ==
    [][/\ FallerExists(faller') => updates' < rows - BUFFER_SIZE
       /\ (FallerExists(faller) /\ ~FallerExists(faller')) =>
             /\ lastOp'.op = "update"
             /\ updates' <= rows - BUFFER_SIZE
             /\ \A i \in 1..FALLER_LENGTH :
                   cells'[faller.rows[i]][faller.col] = faller.colors[i]
       /\ (FallerExists(faller) /\ FallerExists(faller')) =>
             /\ faller'.rows[FALLER_LENGTH] >= faller.rows[FALLER_LENGTH]
             /\ lastOp'.op # "update" => faller'.rows = faller.rows]_vars

\* a faller frozen on the floor by exactly the visibleRows-th update after its
\* spawn, beside a column that holds a stack of jewels
C21_Witness ==
    /\ lastOp.op = "update"
    /\ lastOp.effect = "frozen"
    /\ ~FallerExists(faller)
    /\ updates = rows - BUFFER_SIZE
    /\ \E col \in AllCols :
          /\ Occupied(cells, rows - 1, col)
          /\ \E other \in AllCols \ {col} : Occupied(cells, rows - 2, other)

\* the number of occupied cells of the grid
OccupiedCount(c) ==
    Cardinality({p \in (0..(rows - 1)) \X AllCols : Occupied(c, p[1], p[2])})

\* C22: cascades terminate: an update() that starts with a non-empty
\* matchedSet and freezes no faller lowers the number of occupied cells by
\* exactly the size of matchedSet; no update() adds a jewel other than the
\* three of the faller it freezes; and with no faller and an empty matchedSet
\* update() changes neither the grid nor matchedSet.  The number of occupied
\* cells therefore falls by at least 3 with every update of a cascade, which
\* ends after finitely many updates in a state that further updates leave as
\* it is.
C22_CascadeStep ==
    [][lastOp'.op = "update" =>
        LET froze == FallerExists(faller) /\ ~FallerExists(faller')
        IN  /\ (Len(matching) > 0 /\ ~froze) =>
                  /\ OccupiedCount(cells') = OccupiedCount(cells) - Len(matching)
                  /\ OccupiedCount(cells') < OccupiedCount(cells)
            /\ OccupiedCount(cells') <= OccupiedCount(cells) + (IF froze THEN FALLER_LENGTH ELSE 0)
            /\ (~FallerExists(faller) /\ Len(matching) = 0) =>
                  /\ cells' = cells
                  /\ matching' = matching
                  /\ ~FallerExists(faller')]_vars

\* in the middle of a cascade: an update without a faller has cleared a match,
\* the jewels left have fallen and all of them form the match it found next
C22_Witness ==
    /\ lastOp.op = "update"
    /\ lastOp.effect = "none"
    /\ lastOp.arg >= MATCHING_LENGTH
    /\ ~FallerExists(faller)
    /\ Len(matching) >= MATCHING_LENGTH
    /\ OccupiedCount(cells) = Len(matching)

====
